---- MODULE Spec2Model ----
(***************************************************************************)
(* Weekday / holiday checker (src/unnamed/part_000, the current script;    *)
(* src/script.js is its predecessor with the same cache, resolver and      *)
(* token logic).                                                           *)
(*                                                                         *)
(* Representation                                                          *)
(*  - a Date object is its number of whole days since 1970-01-01 UTC       *)
(*    (getTime() / MS_PER_DAY): every Date the script builds is a UTC      *)
(*    midnight, and a millisecond count does not fit the checker's         *)
(*    integers;                                                            *)
(*  - Date.now() is the variable now, in the same unit, so CACHE_TTL_MS    *)
(*    becomes CACHE_TTL days;                                              *)
(*  - a date key "YYYY-MM-DD" is the tuple <<y, m, d>> that                *)
(*    dateStr.split("-").map(Number) yields; the empty string is <<>>;     *)
(*  - a text node is a string tag or a record of the values interpolated   *)
(*    into it.                                                             *)
(***************************************************************************)
EXTENDS Integers, Sequences, FiniteSets, TLC

VARIABLES
    now,         \* Date.now(), in days since the epoch
    store,       \* localStorage[CACHE_KEY]: the persisted blob
    lastReqId,   \* let lastReqId (part_000:234)
    inflight,    \* render() calls suspended in await getHolidayByAPI(...)
    dom,         \* the text nodes and badges render() writes
    dateInput,   \* dateInput.value
    fetchCount,  \* number of fetch() calls issued so far
    last,        \* the most recently completed getHolidayByAPI call
    shown,       \* the lookup whose result render() applied most recently
    calc         \* a date key and what the date helpers compute from it

vars == <<now, store, lastReqId, inflight, dom, dateInput, fetchCount, last, shown,
          calc>>

-----------------------------------------------------------------------------
(* Bounds and program constants *)

MaxReq == 2                \* at most this many tokens are issued
MaxClockAdvance == 121     \* the clock advances at most this many days
MaxRerender == 3           \* tokens issued when one date is rendered repeatedly
ProbeSpan == 2600          \* consecutive calendar days evaluated from each start

CACHE_TTL == 120           \* CACHE_TTL_MS / MS_PER_DAY
FETCH_TIMEOUT_MS == 4500

-----------------------------------------------------------------------------
(* JavaScript values *)

Undefined == "<undefined>"
Truthy(s) == s # "" /\ s # Undefined
\* a || b on strings
Or(a, b) == IF Truthy(a) THEN a ELSE b

EmptyKey == <<>>

-----------------------------------------------------------------------------
(* Civil-date arithmetic: Date.UTC and the getUTC* accessors *)

\* days since the epoch of the proleptic Gregorian date y-m-d (m in 1..12),
\* computed era by era: yy is the year counted from March, mp the month
\* counted from March, yoe the year of the 400-year era, doy the day of that year
DaysOfEra(era, yoe, doy) ==
    era * 146097 + (yoe * 365 + yoe \div 4 - yoe \div 100 + doy) - 719468
DaysOfMarchYear(yy, mp, d) ==
    DaysOfEra(yy \div 400, yy - (yy \div 400) * 400, (153 * mp + 2) \div 5 + d - 1)
DaysFromCivil(y, m, d) ==
    DaysOfMarchYear(IF m <= 2 THEN y - 1 ELSE y, IF m > 2 THEN m - 3 ELSE m + 9, d)

\* <<year, month, day>> of a day number: the inverse, step by step
CivilOfMonth(y, m, d) == <<IF m <= 2 THEN y + 1 ELSE y, m, d>>
CivilOfMp(y, doy, mp) ==
    CivilOfMonth(y, IF mp < 10 THEN mp + 3 ELSE mp - 9, doy - (153 * mp + 2) \div 5 + 1)
CivilOfDoy(y, doy) == CivilOfMp(y, doy, (5 * doy + 2) \div 153)
CivilOfYoe(era, doe, yoe) ==
    CivilOfDoy(yoe + era * 400, doe - (365 * yoe + yoe \div 4 - yoe \div 100))
CivilOfDoe(era, doe) ==
    CivilOfYoe(era, doe,
               (doe - doe \div 1460 + doe \div 36524 - doe \div 146096) \div 365)
CivilOfShifted(z) == CivilOfDoe(z \div 146097, z - (z \div 146097) * 146097)
CivilFromDays(z0) == CivilOfShifted(z0 + 719468)

\* Date.UTC(year, monthIndex, day) / MS_PER_DAY: years 0..99 mean 1900..1999,
\* a month index outside 0..11 carries into the year, a day outside the month
\* carries into the following months.
DateUTC(year, monthIndex, day) ==
    DaysFromCivil((IF year >= 0 /\ year <= 99 THEN 1900 + year ELSE year)
                      + monthIndex \div 12,
                  (monthIndex % 12) + 1, 1) + day - 1

getUTCFullYear(utcDate) == CivilFromDays(utcDate)[1]
getUTCMonth(utcDate) == CivilFromDays(utcDate)[2] - 1
getUTCDate(utcDate) == CivilFromDays(utcDate)[3]
\* 0 = Sunday; 1970-01-01 was a Thursday
getUTCDay(utcDate) == (utcDate + 4) % 7

ymdToUTCDate(dateStr) == DateUTC(dateStr[1], dateStr[2] - 1, dateStr[3])

\* The text of a date key is its three fields, each a sequence of decimal digits.
\* String(n) for n >= 0
RECURSIVE Digits(_)
Digits(n) == IF n < 10 THEN <<n>> ELSE Digits(n \div 10) \o <<n % 10>>
\* padStart(len, "0")
RECURSIVE PadStart(_, _)
PadStart(ds, len) == IF Len(ds) >= len THEN ds ELSE PadStart(<<0>> \o ds, len)
pad2(n) == PadStart(Digits(n), 2)
\* Number(text) of a digit string
RECURSIVE NumberOf(_)
NumberOf(ds) ==
    IF Len(ds) = 0 THEN 0 ELSE NumberOf(SubSeq(ds, 1, Len(ds) - 1)) * 10 + ds[Len(ds)]
\* the "YYYY-MM-DD" text of the calendar date k = <<y, m, d>>
KeyText(k) == <<PadStart(Digits(k[1]), 4), PadStart(Digits(k[2]), 2), PadStart(Digits(k[3]), 2)>>
\* dateStr.split("-").map(Number)
SplitNumbers(text) == <<NumberOf(text[1]), NumberOf(text[2]), NumberOf(text[3])>>

\* `${y}-${pad2(m)}-${pad2(d)}`: the year is written as it is
utcDateToYMD(utcDate) ==
    <<Digits(getUTCFullYear(utcDate)), pad2(getUTCMonth(utcDate) + 1),
      pad2(getUTCDate(utcDate))>>

\* Intl.DateTimeFormat("en-CA", {timeZone: TZ, ...}).format(new Date())
getTokyoTodayYMD(clock) == CivilFromDays(clock)

ymdPretty(dateStr) == IF dateStr # EmptyKey THEN [kind |-> "date", ymd |-> dateStr]
                      ELSE [kind |-> "dash"]

DOW_JA == <<"nichiyoubi", "getsuyoubi", "kayoubi", "suiyoubi", "mokuyoubi",
            "kinyoubi", "doyoubi">>
DOW_EN == <<"Sun", "Mon", "Tue", "Wed", "Thu", "Fri", "Sat">>

Abs(n) == IF n < 0 THEN -n ELSE n
Max(a, b) == IF a >= b THEN a ELSE b

\* weeksDaysLabelFromDiffDays with the weeks rounded (Math.round for Math.floor)
weeksDaysLabelRoundsWeeks(diffDays) ==
    IF diffDays = 0 THEN [kind |-> "today", parts |-> <<>>, abs |-> 0]
    ELSE LET abs   == Abs(diffDays)
             w     == (2 * abs + 7) \div 14
             d     == abs % 7
             pw    == IF w # 0 THEN <<[n |-> w, unit |-> "weeks"]>> ELSE <<>>
             pd    == IF d # 0 THEN <<[n |-> d, unit |-> "days"]>> ELSE <<>>
             body  == IF Len(pw \o pd) > 0 THEN pw \o pd ELSE <<[n |-> 0, unit |-> "days"]>>
         IN  [kind |-> IF diffDays > 0 THEN "later" ELSE "earlier",
              parts |-> body, abs |-> abs]

weeksDaysLabelFromDiffDays(diffDays) ==
    IF diffDays = 0 THEN [kind |-> "today", parts |-> <<>>, abs |-> 0]
    ELSE LET sign  == IF diffDays > 0 THEN 1 ELSE -1
             abs   == Abs(diffDays)
             w     == abs \div 7
             d     == abs % 7
             pw    == IF w # 0 THEN <<[n |-> w, unit |-> "weeks"]>> ELSE <<>>
             pd    == IF d # 0 THEN <<[n |-> d, unit |-> "days"]>> ELSE <<>>
             parts == pw \o pd
             body  == IF Len(parts) > 0 THEN parts ELSE <<[n |-> 0, unit |-> "days"]>>
         IN  [kind |-> IF sign > 0 THEN "later" ELSE "earlier",
              parts |-> body, abs |-> abs]

mondayStartUTC(utcDate) ==
    LET dow   == getUTCDay(utcDate)
        delta == (dow + 6) % 7
    IN  utcDate - delta

weekIndexAndRemaining(utcDate, periodStartUTC, periodEndUTC) ==
    LET firstWeekStart == mondayStartUTC(periodStartUTC)
        thisWeekStart  == mondayStartUTC(utcDate)
        lastWeekStart  == mondayStartUTC(periodEndUTC)
        idx    == (thisWeekStart - firstWeekStart) \div 7 + 1
        total  == (lastWeekStart - firstWeekStart) \div 7 + 1
        remain == Max(0, total - idx)
    IN  [idx |-> idx, total |-> total, remain |-> remain]

getYearPeriodFor(utcDate) ==
    LET y == getUTCFullYear(utcDate)
    IN  [y |-> y, start |-> DateUTC(y, 0, 1), end |-> DateUTC(y, 11, 31)]

getFiscalPeriodFor(utcDate) ==
    LET y        == getUTCFullYear(utcDate)
        apr1This == DateUTC(y, 3, 1)
        fyStart  == IF utcDate >= apr1This THEN apr1This ELSE DateUTC(y - 1, 3, 1)
        fyEnd    == DateUTC(getUTCFullYear(fyStart) + 1, 2, 31)
    IN  [fyStart |-> fyStart, fyEnd |-> fyEnd]

\* What the date helpers make of the key of calendar day number day, as render
\* calls them (part_000:255, 268-280), with utcDateToYMD applied to the parsed date
NoCalc == [kind |-> "none"]
Calc(day, clock) ==
    LET text     == KeyText(CivilFromDays(day))
        utc      == ymdToUTCDate(SplitNumbers(text))
        todayUTC == ymdToUTCDate(getTokyoTodayYMD(clock))
        yPer     == getYearPeriodFor(utc)
        fPer     == getFiscalPeriodFor(utc)
    IN  [kind |-> "date", day |-> day, text |-> text, utc |-> utc,
         ymd |-> utcDateToYMD(utc),
         diffDays |-> utc - todayUTC,
         diffText |-> weeksDaysLabelFromDiffDays(utc - todayUTC),
         yPer |-> yPer,
         yw |-> weekIndexAndRemaining(utc, yPer.start, yPer.end),
         fPer |-> fPer,
         fw |-> weekIndexAndRemaining(utc, fPer.fyStart, fPer.fyEnd)]

-----------------------------------------------------------------------------
(* JSON values a response body can parse to.  kind is what Array.isArray and *)
(* typeof tell apart; truthy is the value's truthiness; an absent property  *)
(* reads as Undefined.                                                      *)

J(kind, truthy, items, name, title, type) ==
    [kind |-> kind, truthy |-> truthy, items |-> items,
     name |-> name, title |-> title, type |-> type]

JNull == J("null", FALSE, <<>>, Undefined, Undefined, Undefined)
JScalar(truthy) == J("scalar", truthy, <<>>, Undefined, Undefined, Undefined)
JObject(name, title, type) == J("object", TRUE, <<>>, name, title, type)
JArray(items) == J("array", TRUE, items, Undefined, Undefined, Undefined)
\* a body res.json() cannot parse: the promise rejects
JUnparseable == J("unparseable", FALSE, <<>>, Undefined, Undefined, Undefined)
\* no body was read
JNone == J("none", FALSE, <<>>, Undefined, Undefined, Undefined)

\* typeof v === "object" (true of arrays and of null)
TypeofObject(v) == v.kind \in {"object", "array", "null"}

NullInfo == [isNull |-> TRUE, name |-> Undefined, type |-> Undefined]

normalizeHolidayResponse(json) ==
    IF ~json.truthy THEN NullInfo
    ELSE IF json.kind = "array"
         THEN IF Len(json.items) > 0 /\ json.items[1].truthy /\ TypeofObject(json.items[1])
              THEN LET first == json.items[1]
                   IN  [isNull |-> FALSE,
                        name |-> Or(Or(first.name, first.title), ""),
                        type |-> Or(first.type, "")]
              ELSE NullInfo
    ELSE IF TypeofObject(json)
         THEN [isNull |-> FALSE,
               name |-> Or(Or(json.name, json.title), ""),
               type |-> Or(json.type, "")]
    ELSE NullInfo

-----------------------------------------------------------------------------
(* The persisted cache.  A blob is what localStorage holds under CACHE_KEY: *)
(*   absent      no item (getItem gives null)                               *)
(*   invalid     text JSON.parse rejects                                    *)
(*   scalar      JSON text of a number, string, boolean or null             *)
(*   array       JSON text of an array                                      *)
(*   object      JSON text of an object: map is its key -> entry mapping    *)
(* An entry is {status, name?, type?, ts}; ts = 0 stands for a missing or   *)
(* zero ts, which getCached treats alike (v.ts && ...).                     *)

NoEntry == [status |-> "none", name |-> Undefined, type |-> Undefined, ts |-> 0]
EmptyMap == [k \in {} |-> NoEntry]
MapSet(m, k, v) == [x \in DOMAIN m \cup {k} |-> IF x = k THEN v ELSE m[x]]

Blob(kind, map) == [kind |-> kind, map |-> map]

\* loadCache that never sees what the store holds
loadCacheIgnoresBlob(blob) == [kind |-> "object", map |-> EmptyMap]

\* the in-memory value: a plain object, or the parsed array itself
loadCache(blob) ==
    IF blob.kind \in {"object", "array"} THEN [kind |-> blob.kind, map |-> blob.map]
    ELSE [kind |-> "object", map |-> EmptyMap]

\* JSON.stringify: an array serialises its indexed elements only, so the
\* date-key properties set on it are dropped
JSONstringify(cache) ==
    IF cache.kind = "array" THEN Blob("array", EmptyMap)
    ELSE Blob("object", cache.map)

\* saveCache without its try/catch: a failed write throws to the caller
saveCacheRethrows(cache, blob, writeOk) ==
    IF writeOk THEN [store |-> JSONstringify(cache), threw |-> FALSE]
    ELSE [store |-> blob, threw |-> TRUE]

\* writeOk: localStorage.setItem does not throw.  threw: an exception leaves
\* saveCache (never: the catch swallows it)
saveCache(cache, blob, writeOk) ==
    IF writeOk THEN [store |-> JSONstringify(cache), threw |-> FALSE]
    ELSE [store |-> blob, threw |-> FALSE]

\* getCached with the TTL comparison off by one (>= for >)
getCachedExpiresAtTTL(blob, clock, dateStr) ==
    LET cache == loadCache(blob)
    IN  IF dateStr \notin DOMAIN cache.map THEN [hit |-> FALSE, v |-> NoEntry]
        ELSE LET v == cache.map[dateStr]
             IN  IF v.ts # 0 /\ (clock - v.ts) >= CACHE_TTL
                 THEN [hit |-> FALSE, v |-> NoEntry]
                 ELSE [hit |-> TRUE, v |-> v]

getCached(blob, clock, dateStr) ==
    LET cache == loadCache(blob)
    IN  IF dateStr \notin DOMAIN cache.map THEN [hit |-> FALSE, v |-> NoEntry]
        ELSE LET v == cache.map[dateStr]
             IN  IF v.ts # 0 /\ (clock - v.ts) > CACHE_TTL
                 THEN [hit |-> FALSE, v |-> NoEntry]
                 ELSE [hit |-> TRUE, v |-> v]

\* setCached that starts from an empty object instead of the loaded cache
setCachedFromEmpty(blob, clock, dateStr, payload, writeOk) ==
    LET entry == [status |-> payload.status, name |-> payload.name,
                  type |-> payload.type, ts |-> clock]
        cache2 == [kind |-> "object", map |-> MapSet(EmptyMap, dateStr, entry)]
    IN  saveCache(cache2, blob, writeOk)

\* setCached that purges the entries older than CACHE_TTL while it writes
setCachedDropsExpired(blob, clock, dateStr, payload, writeOk) ==
    LET cache == loadCache(blob)
        entry == [status |-> payload.status, name |-> payload.name,
                  type |-> payload.type, ts |-> clock]
        kept  == [k \in {x \in DOMAIN cache.map : clock - cache.map[x].ts <= CACHE_TTL}
                     |-> cache.map[k]]
        cache2 == [cache EXCEPT !.map = MapSet(kept, dateStr, entry)]
    IN  saveCache(cache2, blob, writeOk)

setCached(blob, clock, dateStr, payload, writeOk) ==
    LET cache == loadCache(blob)
        entry == [status |-> payload.status, name |-> payload.name,
                  type |-> payload.type, ts |-> clock]
        cache2 == [cache EXCEPT !.map = MapSet(cache.map, dateStr, entry)]
    IN  saveCache(cache2, blob, writeOk)

-----------------------------------------------------------------------------
(* getHolidayByAPI.  A result is {status, name?, type?, message?, ts?}.     *)

NoMessage == [text |-> Undefined, code |-> 0]
Result(status, name, type, message, ts) ==
    [status |-> status, name |-> name, type |-> type, message |-> message, ts |-> ts]
ErrorResult(text, code) ==
    Result("error", Undefined, Undefined, [text |-> text, code |-> code], 0)
PayloadResult(payload) == Result(payload.status, payload.name, payload.type, NoMessage, 0)
CachedResult(v) == Result(v.status, v.name, v.type, NoMessage, v.ts)

\* what fetchWithTimeout settles with: a rejection (offline, CORS, abort by the
\* timeout), or a response with a status
Rejected == [kind |-> "reject", status |-> 0]
Response(status) == [kind |-> "response", status |-> status]
ResOk(status) == status >= 200 /\ status <= 299

\* the catch of getHolidayByAPI (part_000:228-230) around a cache write
Written(w, payload) ==
    IF w.threw THEN [store |-> w.store, result |-> ErrorResult("network", 0)]
    ELSE [store |-> w.store, result |-> PayloadResult(payload)]

\* AfterFetch that also persists the result of a non-success status
AfterFetchCachesErrors(blob, clock, dateStr, res, writeOk) ==
    IF res.kind = "reject"
    THEN [done |-> TRUE, store |-> blob, result |-> ErrorResult("network", 0), wrote |-> "none"]
    ELSE IF res.status = 404
    THEN LET payload == [status |-> "not", name |-> Undefined, type |-> Undefined]
             w == Written(setCached(blob, clock, dateStr, payload, writeOk), payload)
         IN  [done |-> TRUE, store |-> w.store, result |-> w.result,
              wrote |-> IF writeOk THEN "ok" ELSE "failed"]
    ELSE IF ~ResOk(res.status)
    THEN LET payload == [status |-> "error", name |-> Undefined, type |-> Undefined]
         IN  [done |-> TRUE,
              store |-> setCached(blob, clock, dateStr, payload, writeOk).store,
              result |-> ErrorResult("HTTP", res.status), wrote |-> "none"]
    ELSE [done |-> FALSE, store |-> blob, result |-> ErrorResult("pending", 0), wrote |-> "none"]

\* part_000:206-216: from the settled fetch to the first return, or on to res.json()
AfterFetch(blob, clock, dateStr, res, writeOk) ==
    IF res.kind = "reject"
    THEN [done |-> TRUE, store |-> blob, result |-> ErrorResult("network", 0), wrote |-> "none"]
    ELSE IF res.status = 404
    THEN LET payload == [status |-> "not", name |-> Undefined, type |-> Undefined]
             w == Written(setCached(blob, clock, dateStr, payload, writeOk), payload)
         IN  [done |-> TRUE, store |-> w.store, result |-> w.result,
              wrote |-> IF writeOk THEN "ok" ELSE "failed"]
    ELSE IF ~ResOk(res.status)
    THEN [done |-> TRUE, store |-> blob, result |-> ErrorResult("HTTP", res.status),
          wrote |-> "none"]
    ELSE [done |-> FALSE, store |-> blob, result |-> ErrorResult("pending", 0), wrote |-> "none"]

\* part_000:218-230: from the settled res.json() to the return
AfterJson(blob, clock, dateStr, body, writeOk) ==
    IF body.kind = "unparseable"
    THEN [store |-> blob, result |-> ErrorResult("network", 0), wrote |-> "none"]
    ELSE LET info == normalizeHolidayResponse(body)
         IN  IF ~info.isNull /\ Truthy(info.name)
             THEN LET payload == [status |-> "holiday", name |-> info.name,
                                  type |-> Or(info.type, "")]
                      w == Written(setCached(blob, clock, dateStr, payload, writeOk), payload)
                  IN  [store |-> w.store, result |-> w.result,
                       wrote |-> IF writeOk THEN "ok" ELSE "failed"]
             ELSE [store |-> blob, result |-> ErrorResult("unexpected response", 0),
                   wrote |-> "none"]

-----------------------------------------------------------------------------
(* render: the display *)

Dash == [kind |-> "dash"]
NoteEmpty == [kind |-> "empty", type |-> ""]
Badge(text, kind) == [text |-> text, className |-> kind]

\* clearBadges(); setNote(""); setHolidayName("")  (part_000:237-239)
ClearedView(d) ==
    [d EXCEPT !.badges = <<>>, !.noteText = NoteEmpty,
              !.holidayNameHidden = TRUE, !.holidayNameText = "dash"]

\* the branch for an empty date (part_000:241-251)
EmptyView(d) ==
    [ClearedView(d) EXCEPT !.datePretty = Dash, !.dowText = Dash,
                           !.calendarDayText = "dash", !.holidayText = "dash",
                           !.businessDayText = "dash", !.diffText = Dash,
                           !.yearWeekText = Dash, !.fiscalWeekText = Dash]

isWeekendOf(dateStr) ==
    LET dow == getUTCDay(ymdToUTCDate(dateStr))
    IN  dow = 0 \/ dow = 6

WeekendBadge(isWeekend) ==
    Badge(IF isWeekend THEN "weekend" ELSE "weekday",
          IF isWeekend THEN "ck-badge-warn" ELSE "ck-badge-accent")

\* the synchronous fields and the pending placeholders (part_000:253-287)
PendingView(d, dateStr, clock) ==
    LET targetUTC == ymdToUTCDate(dateStr)
        dow       == getUTCDay(targetUTC)
        isWeekend == (dow = 0 \/ dow = 6)
        todayUTC  == ymdToUTCDate(getTokyoTodayYMD(clock))
        diffDays  == targetUTC - todayUTC
        yPer      == getYearPeriodFor(targetUTC)
        yw        == weekIndexAndRemaining(targetUTC, yPer.start, yPer.end)
        fPer      == getFiscalPeriodFor(targetUTC)
        fw        == weekIndexAndRemaining(targetUTC, fPer.fyStart, fPer.fyEnd)
    IN  [ClearedView(d) EXCEPT
            !.datePretty = ymdPretty(dateStr),
            !.dowText = [kind |-> "dow", ja |-> DOW_JA[dow + 1], en |-> DOW_EN[dow + 1]],
            !.calendarDayText = IF isWeekend THEN "weekend (calendar)" ELSE "weekday (calendar)",
            !.badges = <<WeekendBadge(isWeekend), Badge("holiday check", "ck-badge")>>,
            !.diffText = weeksDaysLabelFromDiffDays(diffDays),
            !.yearWeekText = [kind |-> "week", fy |-> 0, idx |-> yw.idx, remain |-> yw.remain],
            !.fiscalWeekText = [kind |-> "week", fy |-> getUTCFullYear(fPer.fyStart),
                                idx |-> fw.idx, remain |-> fw.remain],
            !.holidayText = "pending",
            !.businessDayText = "pending"]

\* the part of render after the stale check (part_000:292-322)
AppliedView(d, result, isWeekend) ==
    LET isHoliday   == result.status = "holiday"
        holidayName == IF isHoliday THEN Or(result.name, "") ELSE ""
        holidayType == IF isHoliday THEN Or(result.type, "") ELSE ""
        isBusinessDay == (~isWeekend) /\ (~isHoliday)
        statusBadges ==
            IF isHoliday THEN <<Badge("holiday", "ck-badge-accent")>>
            ELSE IF result.status = "not" THEN <<>>
            ELSE <<Badge("holiday check failed", "ck-badge-warn")>>
        businessBadge ==
            Badge(IF isBusinessDay THEN "business day" ELSE "closed",
                  IF isBusinessDay THEN "ck-badge-accent" ELSE "ck-badge-warn")
    IN  [d EXCEPT
            !.badges = <<WeekendBadge(isWeekend)>> \o statusBadges \o <<businessBadge>>,
            !.holidayText = IF isHoliday THEN "holiday"
                            ELSE IF result.status = "not" THEN "not a holiday"
                            ELSE "fetch failed",
            !.holidayNameHidden = ~Truthy(holidayName),
            !.holidayNameText = IF Truthy(holidayName) THEN holidayName ELSE "dash",
            !.noteText = IF isHoliday
                         THEN IF Truthy(holidayType)
                              THEN [kind |-> "type", type |-> holidayType]
                              ELSE d.noteText
                         ELSE IF result.status = "not" THEN NoteEmpty
                         ELSE [kind |-> "check network", type |-> ""],
            !.businessDayText = IF isBusinessDay THEN "business day" ELSE "closed"]

IsStaleAlwaysFresh(reqId, latest) == FALSE
\* if (reqId !== lastReqId) return;  (part_000:290)
IsStale(reqId, latest) == reqId # latest

\* ResumedView that also resets the day difference when the result arrives
ResumedViewResetsDiff(d, reqId, latest, result, isWeekend) ==
    [(IF IsStale(reqId, latest) THEN d ELSE AppliedView(d, result, isWeekend))
        EXCEPT !.diffText = weeksDaysLabelFromDiffDays(0)]

\* render resumed with the lookup's result (part_000:289-322)
ResumedView(d, reqId, latest, result, isWeekend) ==
    IF IsStale(reqId, latest) THEN d ELSE AppliedView(d, result, isWeekend)

NextTokenNoIncrement(latest) == latest
\* ++lastReqId  (part_000:285)
NextToken(latest) == latest + 1

-----------------------------------------------------------------------------
(* The record of a completed getHolidayByAPI call, and of an applied result *)

NoNet == [src |-> "none", status |-> 0, body |-> JNone]
Call(reqId, dateStr, net, result, wrote, latest) ==
    [reqId |-> reqId, dateStr |-> dateStr, net |-> net, result |-> result,
     wrote |-> wrote, latest |-> latest]
NoCall == Call(0, EmptyKey, NoNet, ErrorResult("none", 0), "none", 0)

Shown(reqId, dateStr, result) == [reqId |-> reqId, dateStr |-> dateStr, result |-> result]
NoShown == Shown(0, EmptyKey, ErrorResult("none", 0))

\* render(dateStr) up to its suspension, as a function of the state s it starts in.
\* A cache hit resolves getHolidayByAPI without a network await: render resumes in
\* the same task, before any other handler runs.
render(s, dateStr) ==
    IF dateStr = EmptyKey
    THEN [s EXCEPT !.dom = EmptyView(s.dom)]
    ELSE LET reqId   == NextToken(s.lastReqId)
             pending == PendingView(s.dom, dateStr, s.now)
             cached  == getCached(s.store, s.now, dateStr)
         IN  IF cached.hit
             THEN LET result == CachedResult(cached.v)
                  IN  [s EXCEPT
                        !.lastReqId = reqId,
                        !.dom = ResumedView(pending, reqId, reqId, result, isWeekendOf(dateStr)),
                        !.last = Call(reqId, dateStr, [NoNet EXCEPT !.src = "cache"], result,
                                      "none", reqId),
                        !.shown = IF IsStale(reqId, reqId) THEN s.shown
                                  ELSE Shown(reqId, dateStr, result)]
             ELSE [s EXCEPT
                        !.lastReqId = reqId,
                        !.dom = pending,
                        !.inflight = s.inflight \cup
                                     {[reqId |-> reqId, dateStr |-> dateStr, pc |-> "fetch"]},
                        !.fetchCount = s.fetchCount + 1]

State == [now |-> now, store |-> store, lastReqId |-> lastReqId, inflight |-> inflight,
          dom |-> dom, dateInput |-> dateInput, fetchCount |-> fetchCount,
          last |-> last, shown |-> shown, calc |-> calc]

Becomes(t) ==
    /\ now' = t.now
    /\ store' = t.store
    /\ lastReqId' = t.lastReqId
    /\ inflight' = t.inflight
    /\ dom' = t.dom
    /\ dateInput' = t.dateInput
    /\ fetchCount' = t.fetchCount
    /\ last' = t.last
    /\ shown' = t.shown
    /\ calc' = t.calc

-----------------------------------------------------------------------------
(* Inputs *)

StartNow == DateUTC(2024, 0, 1)
DateKeys == {<<2024, 1, 1>>, <<2024, 1, 6>>}
ClockSteps == {CACHE_TTL, CACHE_TTL + 1}
Statuses == {404, 500, 200}
Bodies ==
    { JObject("New Year", Undefined, "national"),
      JObject(Undefined, "Ganjitsu", Undefined),
      JObject("", Undefined, "national"),
      JArray(<<JObject("New Year", Undefined, "national")>>),
      JArray(<<JScalar(TRUE), JObject("New Year", Undefined, Undefined)>>),
      JArray(<<>>),
      JNull,
      JScalar(TRUE),
      JUnparseable }
InitStores ==
    { Blob("absent", EmptyMap), Blob("invalid", EmptyMap), Blob("scalar", EmptyMap),
      Blob("array", EmptyMap), Blob("object", EmptyMap) }

BlankDom ==
    [datePretty |-> Dash, dowText |-> Dash, calendarDayText |-> "dash",
     holidayText |-> "dash", holidayNameHidden |-> TRUE, holidayNameText |-> "dash",
     businessDayText |-> "dash", diffText |-> Dash, yearWeekText |-> Dash,
     fiscalWeekText |-> Dash, noteText |-> NoteEmpty, badges |-> <<>>]

-----------------------------------------------------------------------------
(* Initial state: the script has run to its end (part_000:342-346), so      *)
(* render(today) has been called once.                                      *)

Loaded(blob) ==
    [now |-> StartNow, store |-> blob, lastReqId |-> 0, inflight |-> {},
     dom |-> BlankDom, dateInput |-> getTokyoTodayYMD(StartNow), fetchCount |-> 0,
     last |-> NoCall, shown |-> NoShown, calc |-> NoCalc]

Starts(t) ==
    /\ now = t.now
    /\ store = t.store
    /\ lastReqId = t.lastReqId
    /\ inflight = t.inflight
    /\ dom = t.dom
    /\ dateInput = t.dateInput
    /\ fetchCount = t.fetchCount
    /\ last = t.last
    /\ shown = t.shown
    /\ calc = t.calc

Init ==
    \E blob \in InitStores :
        Starts(render(Loaded(blob), getTokyoTodayYMD(StartNow)))

-----------------------------------------------------------------------------
(* Actions *)

CanRender(dateStr) == dateStr = EmptyKey \/ lastReqId < MaxReq

\* dateInput "change" (part_000:326-328)
DateInputChange(k) ==
    /\ CanRender(k)
    /\ Becomes(render([State EXCEPT !.dateInput = k], k))

\* todayBtn "click" (part_000:330-334)
TodayClick ==
    LET t == getTokyoTodayYMD(now)
    IN  /\ CanRender(t)
        /\ Becomes(render([State EXCEPT !.dateInput = t], t))

\* clearBtn "click" (part_000:336-339)
ClearClick ==
    Becomes(render([State EXCEPT !.dateInput = EmptyKey], EmptyKey))

\* time passes
Tick(step) ==
    /\ now + step - StartNow <= MaxClockAdvance
    /\ now' = now + step
    /\ UNCHANGED <<store, lastReqId, inflight, dom, dateInput, fetchCount, last, shown,
                   calc>>

\* getHolidayByAPI returns to the render call l, which resumes
Returns(l, net, a) ==
    /\ store' = a.store
    /\ inflight' = inflight \ {l}
    /\ dom' = ResumedView(dom, l.reqId, lastReqId, a.result, isWeekendOf(l.dateStr))
    /\ last' = Call(l.reqId, l.dateStr, net, a.result, a.wrote, lastReqId)
    /\ shown' = IF IsStale(l.reqId, lastReqId) THEN shown
                ELSE Shown(l.reqId, l.dateStr, a.result)
    /\ UNCHANGED <<now, lastReqId, dateInput, fetchCount, calc>>

\* the fetch of l rejects: offline, CORS, or aborted by the timeout
FetchRejects(l) ==
    /\ l \in inflight /\ l.pc = "fetch"
    /\ Returns(l, [NoNet EXCEPT !.src = "reject"],
               AfterFetch(store, now, l.dateStr, Rejected, TRUE))

\* the fetch of l resolves with a response
FetchResponds(l, status, writeOk) ==
    /\ l \in inflight /\ l.pc = "fetch"
    /\ (writeOk \/ status = 404)
    /\ LET a == AfterFetch(store, now, l.dateStr, Response(status), writeOk)
       IN  IF a.done
           THEN Returns(l, [NoNet EXCEPT !.src = "status", !.status = status], a)
           ELSE /\ inflight' = (inflight \ {l}) \cup {[l EXCEPT !.pc = "json"]}
                /\ UNCHANGED <<now, store, lastReqId, dom, dateInput, fetchCount,
                               last, shown, calc>>

\* res.json() of l settles
JsonSettles(l, body, writeOk) ==
    /\ l \in inflight /\ l.pc = "json"
    /\ Returns(l, [src |-> "body", status |-> 200, body |-> body],
               AfterJson(store, now, l.dateStr, body, writeOk))

Next ==
    \/ \E k \in DateKeys \cup {EmptyKey} : DateInputChange(k)
    \/ TodayClick
    \/ ClearClick
    \/ \E step \in ClockSteps : Tick(step)
    \/ \E l \in inflight : FetchRejects(l)
    \/ \E l \in inflight, status \in Statuses, writeOk \in BOOLEAN :
            FetchResponds(l, status, writeOk)
    \/ \E l \in inflight, body \in Bodies, writeOk \in BOOLEAN :
            JsonSettles(l, body, writeOk)

Spec == Init /\ [][Next]_vars

\* The timer of fetchWithTimeout (part_000:171) aborts the fetch of the render
\* call holding token id: armed when the fetch is issued, it fires unless the
\* fetch settles first; once the fetch has settled, .finally() has cleared it
\* (part_000:178), so nothing bounds the wait for res.json()
TimerFires(id) == \E l \in inflight : l.reqId = id /\ FetchRejects(l)

\* The script with its timers: a pending fetch does not stay pending for ever.
\* When, and whether, the server sends the rest of a body is left open.
SpecTimeout == Spec /\ \A id \in 1..MaxReq : WF_vars(TimerFires(id))

\* The script when the date on display is rendered again and again: a change
\* event that leaves dateInput.value as it is (part_000:326-328)
ChangeAgain ==
    /\ lastReqId < MaxRerender
    /\ Becomes(render(State, dateInput))

NextSameKey ==
    \/ ChangeAgain
    \/ \E step \in ClockSteps : Tick(step)
    \/ \E l \in inflight : FetchRejects(l)
    \/ \E l \in inflight, status \in Statuses, writeOk \in BOOLEAN :
            FetchResponds(l, status, writeOk)
    \/ \E l \in inflight, body \in Bodies, writeOk \in BOOLEAN :
            JsonSettles(l, body, writeOk)

SpecSameKey == Init /\ [][NextSameKey]_vars

\* The same script when dateInput.value can be any text of the form
\* "YYYY-MM-DD": render receives it unchecked (part_000:326-328), here a month
\* 13 and a February 30th
MalformedKeys == {<<2024, 13, 1>>, <<2024, 2, 30>>}

NextAnyKey ==
    \/ Next
    \/ \E k \in MalformedKeys : DateInputChange(k)

SpecAnyKey == Init /\ [][NextAnyKey]_vars

\* The date helpers evaluated on the keys of consecutive calendar days, in
\* the loaded script (no event is handled meanwhile): around the years 100
\* and 1000, and from 2023 on
ProbeStarts == {DaysFromCivil(99, 10, 1), DaysFromCivil(999, 1, 1), DaysFromCivil(2023, 1, 1)}

InitDates ==
    \E day \in ProbeStarts :
        Starts([render(Loaded(Blob("absent", EmptyMap)), getTokyoTodayYMD(StartNow))
                    EXCEPT !.calc = Calc(day, StartNow)])

NextDate ==
    /\ \E day \in ProbeStarts : calc.day >= day /\ calc.day < day + ProbeSpan
    /\ calc' = Calc(calc.day + 1, now)
    /\ UNCHANGED <<now, store, lastReqId, inflight, dom, dateInput, fetchCount, last, shown>>

SpecDates == InitDates /\ [][NextDate]_vars

-----------------------------------------------------------------------------
(* Vocabulary of the properties *)

\* in this step getHolidayByAPI returned to the suspended render call l
Resumed(l) == l \in inflight /\ \A m \in inflight' : m.reqId # l.reqId

\* in this step render was called with a non-empty date (a lookup started)
LookupStarted == lastReqId' # lastReqId

HolidayFields(d) ==
    <<d.holidayText, d.holidayNameHidden, d.holidayNameText, d.noteText, d.badges,
      d.businessDayText>>

Outcomes == {"holiday", "not a holiday", "fetch failed"}

\* the holiday text that stands for a result
TextFor(result) ==
    IF result.status = "holiday" THEN "holiday"
    ELSE IF result.status = "not" THEN "not a holiday"
    ELSE "fetch failed"

\* the store holds an entry for k that is at most CACHE_TTL old
FreshEntry(k) ==
    /\ store.kind = "object"
    /\ k \in DOMAIN store.map
    /\ now - store.map[k].ts <= CACHE_TTL

EntryOf(result, ts) ==
    [status |-> result.status, name |-> result.name, type |-> result.type, ts |-> ts]

-----------------------------------------------------------------------------
(* C1 *)

\* whenever the display shows a lookup outcome, it is the outcome of the lookup
\* that holds the latest token
C1_ShownIsLatest ==
    dom.holidayText \in Outcomes =>
        /\ shown.reqId = lastReqId
        /\ dom.holidayText = TextFor(shown.result)
        /\ (shown.result.status = "holiday" /\ Truthy(shown.result.name)
                => dom.holidayNameText = shown.result.name)
\* once the last started lookup has completed (the date not cleared since) the
\* display shows its result
C1_Final ==
    (dateInput # EmptyKey /\ \A l \in inflight : l.reqId # lastReqId) =>
        /\ dom.holidayText \in Outcomes
        /\ shown.reqId = lastReqId
        /\ shown.dateStr = dateInput
\* a lookup whose token is not the latest when it completes leaves the display
\* unchanged
C1_StaleDropped ==
    \A l \in inflight : Resumed(l) /\ l.reqId # lastReqId => dom' = dom
\* C1: for any sequence of render calls and any completion order, the only
\* lookup result ever applied to the display is that of the most recently
\* started lookup: a lookup whose token differs from the latest when it
\* completes changes nothing on the display, and the final displayed holiday
\* state reflects the last started lookup only.
C1_LatestOnly ==
    /\ [](C1_ShownIsLatest /\ C1_Final)
    /\ [][C1_StaleDropped]_vars
\* C1 witness: lookup 1 completed after lookup 2 had been started and applied;
\* it was dropped and the display still shows the (different) result of lookup 2
C1_Witness ==
    /\ last.reqId = 1 /\ last.latest = 2
    /\ shown.reqId = 2 /\ inflight = {}
    /\ dom.holidayText = TextFor(shown.result)
    /\ shown.result # last.result

-----------------------------------------------------------------------------
(* C2 *)

\* since render call l started, another date was rendered or the date was
\* cleared (render("") shows the placeholders and issues no token)
NewerViewSince(l) ==
    \/ l.reqId # lastReqId
    \/ dom.datePretty # ymdPretty(l.dateStr)
\* C2: once a newer view has been rendered (a different date, or the date
\* cleared through render("")), the later completion of an earlier lookup never
\* changes the holiday, holiday-name, note, badge or business-day fields.
C2_LateResultKeepsNewerView ==
    [][\A l \in inflight :
          Resumed(l) /\ NewerViewSince(l) => HolidayFields(dom') = HolidayFields(dom)]_vars

-----------------------------------------------------------------------------
(* C3 *)

\* C3: getHolidayByAPI(key) invoked while the store holds an entry for key at
\* most CACHE_TTL old returns that entry and issues no network request; a
\* request is issued only when the entry is absent or expired.
C3_FreshHitNoFetch ==
    [][LookupStarted =>
          IF FreshEntry(dateInput')
          THEN /\ fetchCount' = fetchCount
               /\ inflight' = inflight
               /\ last'.reqId = lastReqId'
               /\ last'.net.src = "cache"
               /\ EntryOf(last'.result, last'.result.ts) = store.map[dateInput']
          ELSE /\ fetchCount' = fetchCount + 1
               /\ last' = last]_vars
\* C3 witness: the second lookup was answered from an entry exactly CACHE_TTL
\* old, the only fetch being that of the first lookup
C3_Witness ==
    /\ lastReqId = 2 /\ fetchCount = 1
    /\ last.reqId = 2 /\ last.net.src = "cache"
    /\ now - last.result.ts = CACHE_TTL

-----------------------------------------------------------------------------
(* C4 *)

CarriesName(o) == o.kind = "object" /\ (Truthy(o.name) \/ Truthy(o.title))
\* the payload is an object, or an array whose first element is an object,
\* carrying a non-empty name or title
YieldsName(body) ==
    \/ CarriesName(body)
    \/ body.kind = "array" /\ Len(body.items) > 0 /\ CarriesName(body.items[1])
NameIn(body) ==
    LET o == IF body.kind = "array" THEN body.items[1] ELSE body
    IN  IF Truthy(o.name) THEN o.name ELSE o.title
\* C4: on a cache miss the network outcome fixes the result: 404 gives
\* NotHoliday; another non-success status Error "HTTP <code>"; a success
\* response whose payload carries a non-empty name or title Holiday with that
\* name; every success response whose payload does not yield a name Error
\* "unexpected response"; a timeout or transport fault Error "network".
C4_ResultByOutcome ==
    /\ last.net.src = "reject" => last.result = ErrorResult("network", 0)
    /\ last.net.src = "status" /\ last.net.status = 404 => last.result.status = "not"
    /\ last.net.src = "status" /\ last.net.status # 404
            => last.result = ErrorResult("HTTP", last.net.status)
    /\ last.net.src = "body" /\ YieldsName(last.net.body)
            => last.result.status = "holiday" /\ last.result.name = NameIn(last.net.body)
    /\ last.net.src = "body" /\ ~YieldsName(last.net.body)
            => last.result = ErrorResult("unexpected response", 0)

-----------------------------------------------------------------------------
(* C5 *)

C5_EntriesOK ==
    \A k \in DOMAIN store.map : store.map[k].status \in {"holiday", "not"}
C5_ErrorKeepsStore ==
    \A l \in inflight : Resumed(l) /\ last'.result.status = "error" => store' = store
\* a lookup started for a key without a fresh entry issues a fetch
C5_MissFetches ==
    LookupStarted /\ ~FreshEntry(dateInput') =>
        /\ fetchCount' = fetchCount + 1
        /\ \E l \in inflight' : l.reqId = lastReqId' /\ l.dateStr = dateInput' /\ l.pc = "fetch"
\* a lookup is started for the key of the lookup that returned last, which ended
\* in Error, no other lookup having been started since: the next lookup for
\* the same key
NextAfterError ==
    /\ LookupStarted
    /\ last.result.status = "error"
    /\ last.dateStr = dateInput'
    /\ last.latest = lastReqId
C5_RefetchAfterError == NextAfterError => fetchCount' = fetchCount + 1
\* C5: every entry of the persisted cache has status Holiday or NotHoliday; a
\* lookup ending in Error leaves the persisted cache unchanged, so the next
\* lookup for the same key issues a network request again.
C5_ErrorThenRefetch ==
    /\ []C5_EntriesOK
    /\ [][C5_ErrorKeepsStore /\ C5_RefetchAfterError]_vars
\* the next lookup for the key of a lookup that ended in Error fetches again,
\* unless the store holds a fresh entry for the key: then it returns that
\* Holiday or NotHoliday entry and issues no request
C5_RefetchUnlessCached ==
    NextAfterError =>
        IF FreshEntry(dateInput')
        THEN /\ fetchCount' = fetchCount
             /\ last'.net.src = "cache"
             /\ last'.result.status \in {"holiday", "not"}
        ELSE fetchCount' = fetchCount + 1
\* C5 (amended): every entry of the persisted cache has status Holiday or
\* NotHoliday, and a lookup ending in Error leaves the persisted cache
\* unchanged; the next lookup for the same key issues a network request again
\* unless the cache holds a fresh entry for that key (written by another lookup
\* for the same key), in which case it is answered from the cache.
C5_ErrorsNotPersisted ==
    /\ []C5_EntriesOK
    /\ [][C5_ErrorKeepsStore /\ C5_MissFetches /\ C5_RefetchUnlessCached]_vars
\* C5 witness: lookup 2 ended in Error and left the store unchanged, while the
\* store holds the fresh entry that the superseded lookup 1 for the same key
\* wrote; no lookup has been started since, so the next one is answered from
\* the cache
C5_Witness ==
    /\ last.result.status = "error" /\ last.reqId = 2
    /\ last.latest = lastReqId /\ inflight = {}
    /\ last.dateStr = dateInput
    /\ FreshEntry(dateInput)
    /\ fetchCount = 2

-----------------------------------------------------------------------------
(* C6 *)

\* C6: a superseded lookup (its token no longer the latest) is inert when it
\* completes: it changes neither the display nor the persisted cache.
C6_SupersededInert ==
    [][\A l \in inflight :
          Resumed(l) /\ l.reqId # lastReqId => dom' = dom /\ store' = store]_vars
\* the store changed by exactly the entry of l's result under l's key
C6_OwnEntryOnly(l) ==
    /\ last'.result.status \in {"holiday", "not"}
    /\ store'.kind = "object"
    /\ DOMAIN store'.map = DOMAIN store.map \cup {l.dateStr}
    /\ store'.map[l.dateStr] = EntryOf(last'.result, now)
    /\ \A k \in DOMAIN store.map : k # l.dateStr => store'.map[k] = store.map[k]
\* C6 (amended): a superseded lookup changes nothing on the display when it
\* completes; the only change it can make to the persisted cache is to write
\* its own Holiday or NotHoliday result under its own key, every other key
\* keeping its entry; an Error outcome leaves the cache unchanged.
C6_SupersededWritesCacheOnly ==
    [][\A l \in inflight :
          Resumed(l) /\ l.reqId # lastReqId =>
              /\ dom' = dom
              /\ (store' # store => C6_OwnEntryOnly(l))
              /\ (last'.result.status = "error" => store' = store)]_vars
\* C6 witness: the superseded lookup 1 completed after lookup 2 had written
\* its entry, and wrote its own entry next to it while the display kept
\* showing lookup 2
C6_Witness ==
    /\ last.reqId = 1 /\ last.latest = 2 /\ last.wrote = "ok"
    /\ shown.reqId = 2 /\ dom.holidayText = TextFor(shown.result)
    /\ store.kind = "object"
    /\ last.dateStr \in DOMAIN store.map
    /\ shown.dateStr \in DOMAIN store.map
    /\ shown.dateStr # last.dateStr

-----------------------------------------------------------------------------
(* C7 *)

C7_TokensDistinct ==
    /\ \A a, b \in inflight : a.reqId = b.reqId => a = b
    /\ \A a \in inflight : a.reqId >= 1 /\ a.reqId <= lastReqId
    /\ last.reqId <= lastReqId /\ shown.reqId <= lastReqId
C7_TokenStep ==
    /\ lastReqId' >= lastReqId
    /\ \A m \in inflight' \ inflight :
          m.pc = "fetch" =>
              /\ m.reqId = lastReqId'
              /\ m.reqId > lastReqId
              /\ \A a \in inflight : m.reqId > a.reqId
    /\ (last' # last /\ last'.net.src = "cache") =>
              last'.reqId = lastReqId' /\ last'.reqId > lastReqId
\* C7: every token issued by ++lastReqId is strictly greater than every token
\* issued before it: the latest token never decreases and is never reset, and
\* no two started lookups hold the same token.
C7_TokensIncrease ==
    /\ []C7_TokensDistinct
    /\ [][C7_TokenStep]_vars
\* C7 witness: two lookups are suspended, holding the tokens 1 and 2
C7_Witness ==
    /\ lastReqId = 2
    /\ \E a, b \in inflight : a.reqId = 1 /\ b.reqId = 2

-----------------------------------------------------------------------------
(* C8 *)

\* after a setCached(k, r) whose write the store accepted, getCached(k) at the
\* same clock value returns r with its timestamp
C8_PutThenGet ==
    \A l \in inflight :
        Resumed(l) /\ last'.wrote = "ok" =>
            getCached(store', now, l.dateStr) =
                [hit |-> TRUE, v |-> EntryOf(last'.result, now)]
C8_ExpiredAbsent ==
    \A k \in DOMAIN store.map :
        now - store.map[k].ts > CACHE_TTL => ~getCached(store, now, k).hit
\* C8: cache round-trip with TTL: setCached(k, r) followed by getCached(k)
\* with no clock advance returns an entry equal to r plus its timestamp; once
\* the clock is more than CACHE_TTL past the timestamp getCached(k) is absent.
C8_RoundTrip ==
    /\ []C8_ExpiredAbsent
    /\ [][C8_PutThenGet]_vars

-----------------------------------------------------------------------------
(* C9 *)

\* the blob is not a key-to-entry mapping: invalid JSON, a scalar, an array
Unmapped(blob) == blob.kind \in {"invalid", "scalar", "array"}
C9_ReadsAbsent ==
    Unmapped(store) =>
        \A k \in DateKeys \cup {getTokyoTodayYMD(now)} : ~getCached(store, now, k).hit
C9_WriteHeals ==
    \A l \in inflight :
        Resumed(l) /\ Unmapped(store) /\ last'.wrote = "ok" =>
            /\ getCached(store', now, l.dateStr).hit
            /\ getCached(store', now, l.dateStr).v = EntryOf(last'.result, now)
\* C9: if the persisted blob is not parseable as a key-to-entry mapping
\* (invalid JSON, or valid JSON of another shape such as an array or a scalar)
\* the cache behaves as an empty mapping: every getCached is absent, and after
\* the next successful setCached(k, r) getCached(k) returns r.
C9_CorruptBlobHeals ==
    /\ []C9_ReadsAbsent
    /\ [][C9_WriteHeals]_vars

-----------------------------------------------------------------------------
(* C10 *)

\* C10: when the write to the persisted store fails, setCached is a no-op: the
\* store is unchanged, no error propagates, and the lookup that triggered the
\* write still returns its Holiday or NotHoliday result (which the display
\* shows if the lookup is the latest) rather than an Error.
C10_FailedWriteIsNoOp ==
    [][\A l \in inflight :
          Resumed(l) /\ last'.wrote = "failed" =>
              /\ store' = store
              /\ last'.result.status =
                    (IF last'.net.src = "status" THEN "not" ELSE "holiday")
              /\ (l.reqId = lastReqId => dom'.holidayText = TextFor(last'.result)
                                         /\ dom'.holidayText # "fetch failed")]_vars
\* C10 witness: a Holiday answer whose cache write failed is shown as a holiday
\* and nothing was stored for its key
C10_Witness ==
    /\ last.wrote = "failed"
    /\ last.result.status = "holiday"
    /\ last.reqId = lastReqId
    /\ dom.holidayText = "holiday"
    /\ last.dateStr \notin DOMAIN store.map

-----------------------------------------------------------------------------
(* C11 *)

\* the store holds an entry for k that is more than CACHE_TTL old
ExpiredEntry(k) == k \in DOMAIN store.map /\ now - store.map[k].ts > CACHE_TTL
\* a render call, whose getHolidayByAPI starts with getCached, leaves the blob
\* as it was, whether the entry it reads is fresh, expired or missing
C11_ReadKeepsStore == LookupStarted => store' = store
\* an expired entry is in the store after every step, unchanged unless the step
\* is the successful setCached of a lookup for the same key
C11_ExpiredStays ==
    \A k \in DOMAIN store.map :
        ExpiredEntry(k) =>
            /\ k \in DOMAIN store'.map
            /\ \/ store'.map[k] = store.map[k]
               \/ \E l \in inflight :
                     /\ Resumed(l) /\ l.dateStr = k /\ last'.wrote = "ok"
                     /\ store'.map[k] = EntryOf(last'.result, now)
\* C11: getCached never modifies the persisted store: reading a key, including
\* one whose entry has expired, leaves the blob unchanged, so an expired entry
\* stays in the store until a later successful setCached for the same key
\* overwrites it.
C11_GetCachedReadOnly == [][C11_ReadKeepsStore /\ C11_ExpiredStays]_vars
\* C11 witness: a lookup read an expired entry for its key, went to the network
\* (it is waiting for the fetch) and the expired entry is still in the store
C11_Witness ==
    \E l \in inflight :
        /\ l.pc = "fetch" /\ l.reqId = lastReqId
        /\ ExpiredEntry(l.dateStr)
        /\ ~getCached(store, now, l.dateStr).hit

-----------------------------------------------------------------------------
(* C12 *)

SyncFields(d) ==
    <<d.datePretty, d.dowText, d.calendarDayText, d.diffText, d.yearWeekText,
      d.fiscalWeekText>>
\* the signed day count a day-difference label stands for
SignedDays(label) == IF label.kind = "earlier" THEN -label.abs ELSE label.abs
\* the synchronous fields are those of the date rendered last (dateInput): the
\* weekday, calendar-day and week fields are that date's, and the day
\* difference is its distance from the Tokyo date of some moment between load
\* and now; after render("") they are all placeholders
C12_SyncOfRendered ==
    IF dateInput = EmptyKey
    THEN SyncFields(dom) = SyncFields(EmptyView(dom))
    ELSE LET want == PendingView(BlankDom, dateInput, now)
             n    == SignedDays(dom.diffText)
         IN  /\ dom.datePretty = want.datePretty
             /\ dom.dowText = want.dowText
             /\ dom.calendarDayText = want.calendarDayText
             /\ dom.yearWeekText = want.yearWeekText
             /\ dom.fiscalWeekText = want.fiscalWeekText
             /\ dom.diffText.kind \in {"today", "later", "earlier"}
             /\ dom.diffText = weeksDaysLabelFromDiffDays(n)
             /\ ymdToUTCDate(dateInput) - n >= StartNow
             /\ ymdToUTCDate(dateInput) - n <= now
C12_CompletionKeepsSync ==
    \A l \in inflight : Resumed(l) => SyncFields(dom') = SyncFields(dom)
\* C12: the synchronous fields (weekday, calendar-day classification, day
\* difference, year-week, fiscal-week) always correspond to the most recently
\* rendered date: no lookup completion, applied or discarded, ending in
\* Holiday, NotHoliday or Error, changes them.
C12_SyncFollowsRender ==
    /\ []C12_SyncOfRendered
    /\ [][C12_CompletionKeepsSync]_vars
\* C12 witness: after the lookup of the date on display had been applied, the
\* lookup of the date rendered before it completed and was discarded; the
\* weekday on display is that of the later date, which falls on another weekday
C12_Witness ==
    /\ last.reqId = 1 /\ last.latest = 2 /\ shown.reqId = 2
    /\ shown.dateStr = dateInput /\ last.dateStr # dateInput
    /\ dom.dowText.en = DOW_EN[getUTCDay(ymdToUTCDate(dateInput)) + 1]
    /\ getUTCDay(ymdToUTCDate(last.dateStr)) # getUTCDay(ymdToUTCDate(dateInput))
    /\ dom.holidayText \in Outcomes

-----------------------------------------------------------------------------
(* C13 *)

\* k names a day of the calendar: month 1..12, day within the month
CalendarValid(k) ==
    /\ Len(k) = 3
    /\ k[2] >= 1 /\ k[2] <= 12 /\ k[3] >= 1
    /\ CivilFromDays(DaysFromCivil(k[1], k[2], k[3])) = k
\* C13: for a non-empty date key that is not a calendar-valid "YYYY-MM-DD"
\* string (e.g. month 13) no computation proceeds: no synchronous field is
\* computed, no token is issued and no lookup is started.
C13_MalformedKeyStopsRender ==
    [][(dateInput' # dateInput /\ dateInput' # EmptyKey /\ ~CalendarValid(dateInput')) =>
          /\ lastReqId' = lastReqId
          /\ inflight' = inflight
          /\ fetchCount' = fetchCount
          /\ SyncFields(dom') # SyncFields(PendingView(dom, dateInput', now))]_vars

-----------------------------------------------------------------------------
(* C14 *)

\* C14: for every calendar-valid date key k in the form "YYYY-MM-DD"
\* (four-digit year, including years below 1000),
\* utcDateToYMD(ymdToUTCDate(k)) = k.
C14_KeyRoundTrip == calc.ymd = calc.text

-----------------------------------------------------------------------------
(* C15 *)

\* the Monday on or before day number d
MondayOf(d) == CHOOSE m \in (d - 6)..d : getUTCDay(m) = 1
\* the week record w is that of the date d in the period from start
WeekOf(w, d, start) ==
    /\ w.idx = (MondayOf(d) - MondayOf(start)) \div 7 + 1
    /\ w.remain = Max(0, w.total - w.idx)
    /\ w.idx >= 1 /\ w.idx <= w.total
    /\ w.remain = w.total - w.idx
\* C15: for every date d evaluated against its own calendar-year period and
\* against its own fiscal-year period, weekIndexAndRemaining returns
\* idx = floor(days(firstMonday, thisMonday) / 7) + 1 and
\* remain = max(0, total - idx), with 1 <= idx <= total, so the clamp is never
\* exercised and remain = total - idx; for 2024-01-01 in calendar year 2024
\* the index is 1.
C15_WeekIndexInPeriod ==
    /\ WeekOf(calc.yw, calc.utc, calc.yPer.start)
    /\ WeekOf(calc.fw, calc.utc, calc.fPer.fyStart)
    /\ (calc.text = KeyText(<<2024, 1, 1>>) => calc.yw.idx = 1)

-----------------------------------------------------------------------------
(* C16 *)

\* C16: getFiscalPeriodFor(d) returns start = April 1 of d's calendar year if
\* d >= that April 1, else April 1 of the previous calendar year;
\* end = March 31 of the calendar year after start's year; and
\* start <= d <= end: March 31 belongs to the fiscal year that began the
\* previous calendar year and April 1 begins a new one.
C16_FiscalPeriodOfDate ==
    LET d     == calc.utc
        ymd   == CivilFromDays(d)
        start == CivilFromDays(calc.fPer.fyStart)
        end   == CivilFromDays(calc.fPer.fyEnd)
    IN  /\ start = IF d >= DaysFromCivil(ymd[1], 4, 1) THEN <<ymd[1], 4, 1>>
                   ELSE <<ymd[1] - 1, 4, 1>>
        /\ end = <<start[1] + 1, 3, 31>>
        /\ calc.fPer.fyStart <= d /\ d <= calc.fPer.fyEnd
        /\ (ymd[2] = 3 /\ ymd[3] = 31 => start[1] = ymd[1] - 1)
        /\ (ymd[2] = 4 /\ ymd[3] = 1 => calc.fPer.fyStart = d)

-----------------------------------------------------------------------------
(* C17 *)

\* getHolidayByAPI has not yet returned to the render call holding token id
Pending(id) == \E l \in inflight : l.reqId = id
\* C17: every invocation of getHolidayByAPI eventually completes: on a cache
\* miss the network lookup either delivers a complete response or is aborted
\* by the FETCH_TIMEOUT_MS timeout, also when the server stalls after sending
\* the response headers but before the body has been fully read.
C17_EveryLookupCompletes ==
    \A id \in 1..MaxReq : [](Pending(id) => <>~Pending(id))

-----------------------------------------------------------------------------
(* C18 *)

\* the render call b completes in this step with a successful cache write
WritesOnReturn(b) ==
    \/ FetchResponds(b, 404, TRUE)
    \/ \E body \in Bodies : JsonSettles(b, body, TRUE) /\ last'.wrote = "ok"
\* a lookup has just written its entry, and a lookup for another key is in flight
SecondWritePending ==
    /\ last.wrote = "ok" /\ last.dateStr \in DOMAIN store.map
    /\ \E b \in inflight : b.dateStr # last.dateStr
\* C18: within one execution context two lookups for different keys that
\* complete in close succession can lose an update: when the first has written
\* its entry, a completion of the second is possible in which its setCached
\* works on the blob as it was before that write and overwrites it, so that the
\* first lookup's entry is absent afterwards.
C18_LostUpdatePossible ==
    SecondWritePending =>
        ENABLED (\E b \in inflight :
                    /\ b.dateStr # last.dateStr
                    /\ WritesOnReturn(b)
                    /\ last.dateStr \notin DOMAIN store'.map)
C18_WriteKeepsOthers ==
    \A l \in inflight :
        Resumed(l) =>
            \A k \in DOMAIN store.map \ {l.dateStr} :
                k \in DOMAIN store'.map /\ store'.map[k] = store.map[k]
\* two lookups for different keys have both written: both entries are there
C18_BothKept ==
    (last.wrote = "ok" /\ store.kind = "object") => last.dateStr \in DOMAIN store.map
\* C18 (amended): within one execution context no update is lost: setCached
\* reads, changes and writes the blob without suspending, so the write of a
\* completing lookup keeps the entry of every other key, in whatever order the
\* lookups complete.
C18_NoLostUpdate ==
    /\ []C18_BothKept
    /\ [][C18_WriteKeepsOthers]_vars
\* C18 witness: two lookups for different keys completed one after the other
\* at the same clock value, each with a successful write, and the store holds
\* both entries
C18_Witness ==
    /\ inflight = {} /\ lastReqId = 2 /\ last.wrote = "ok"
    /\ Cardinality(DOMAIN store.map) = 2
    /\ \A k \in DOMAIN store.map : store.map[k].ts = now

-----------------------------------------------------------------------------
(* C19 *)

\* the lookup of the date on display has not returned yet
LatestPending == dateInput # EmptyKey /\ \E l \in inflight : l.reqId = lastReqId
\* C19: the date is shown as a business day only when it is not a weekend day
\* and the applied lookup established that it is not a holiday (NotHoliday);
\* while the lookup is pending the field shows pending, and when the applied
\* result is Holiday or Error the field never states "business day".
C19_BusinessDayNeedsNotHoliday ==
    /\ LatestPending => dom.businessDayText = "pending"
    /\ dom.businessDayText = "business day" =>
            /\ shown.result.status = "not"
            /\ ~isWeekendOf(shown.dateStr)
    /\ dom.holidayText \in {"holiday", "fetch failed"} =>
            dom.businessDayText # "business day"

-----------------------------------------------------------------------------
(* C20 *)

\* the number the label gives for unit ("weeks" or "days"), 0 if it names none
PartOf(label, unit) ==
    LET at == {i \in 1..Len(label.parts) : label.parts[i].unit = unit}
    IN  IF at = {} THEN 0 ELSE label.parts[CHOOSE i \in at : TRUE].n
\* C20: the day difference between a date and itself is 0 and is labelled as
\* the same-day zero result; for every non-zero difference n,
\* weeksDaysLabelFromDiffDays decomposes |n| into w whole weeks and r remainder
\* days with 7*w + r = |n| and 0 <= r <= 6, takes the direction (later/earlier)
\* from the sign of n, and reports the signed total +|n| or -|n| (9 days gives
\* 1 week 2 days, later, +9).
C20_DiffLabel ==
    LET n == calc.diffDays
        t == calc.diffText
        w == PartOf(t, "weeks")
        r == PartOf(t, "days")
    IN  /\ (calc.text = KeyText(getTokyoTodayYMD(now)) => n = 0)
        /\ (n = 0 => t = [kind |-> "today", parts |-> <<>>, abs |-> 0])
        /\ (n # 0 =>
               /\ 7 * w + r = Abs(n) /\ r >= 0 /\ r <= 6 /\ w >= 0
               /\ Len(t.parts) = (IF w # 0 THEN 1 ELSE 0) + (IF r # 0 THEN 1 ELSE 0)
               /\ t.kind = (IF n > 0 THEN "later" ELSE "earlier")
               /\ SignedDays(t) = n)
        /\ (n = 9 => t = [kind |-> "later",
                          parts |-> <<[n |-> 1, unit |-> "weeks"], [n |-> 2, unit |-> "days"]>>,
                          abs |-> 9])
\* C20 witness: the date nine days after today, labelled 1 week 2 days later
C20_Witness ==
    /\ calc.text = KeyText(<<2024, 1, 10>>)
    /\ getTokyoTodayYMD(now) = <<2024, 1, 1>>
    /\ calc.diffDays = 9
    /\ PartOf(calc.diffText, "weeks") = 1 /\ PartOf(calc.diffText, "days") = 2

====
